---- MODULE Spec2Model ----
(***************************************************************************)
(* Model of sagemaker/code/inference.py: the pure-Python port of the       *)
(* torch-scatter reductions (broadcast, scatter_sum, scatter_mean,         *)
(* scatter), the message passing layer MPNNLayer and the layer stack       *)
(* MPNNModel.                                                              *)
(*                                                                         *)
(* A tensor is a record [shape, at]: shape is the sequence of extents and  *)
(* at maps every index tuple (1-based here, 0-based in the source) to the  *)
(* element stored there.  A failed call is a record [err, why].            *)
(***************************************************************************)
EXTENDS Integers, Sequences, FiniteSets, TLC

\* Optional values: None is the empty sequence, Some(v) the one-element one
None == <<>>
Some(v) == <<v>>
IsNone(o) == Len(o) = 0
Get(o) == o[1]

\* ------------------------------------------------------------------------
\* Bounds of the model
\* ------------------------------------------------------------------------
MaxRows == 2      \* largest extent of the value buffer along the node axis
MaxExt == 2       \* largest extent of an axis in the broadcast experiments
MaxLayers == 2    \* largest num_layers of a constructed model
MaxNodes == 3     \* largest node count of a graph

\* ------------------------------------------------------------------------
\* Element types.  An "int" buffer holds exact integers (torch.int64; the
\* values of the model stay far from the 64-bit range).  A "float" buffer
\* holds binary floating point numbers, scaled down from float32: a value
\* is an integer count of units of 2^-FracBits, with at most MantBits
\* significant bits, and every operation rounds to nearest, ties to even.
\* ------------------------------------------------------------------------
MantBits == 3
FracBits == 2

RECURSIVE Pow2(_)
Pow2(n) == IF n = 0 THEN 1 ELSE 2 * Pow2(n - 1)

Unit == Pow2(FracBits)

RECURSIVE Ulp(_, _, _)
\* the spacing of the representable numbers around n/d (n >= 0, d > 0)
Ulp(n, d, u) == IF n < Pow2(MantBits) * u * d THEN u ELSE Ulp(n, d, 2 * u)

\* n/d rounded to the nearest representable number, ties to even (n >= 0)
FRoundPos(n, d) ==
    LET u == Ulp(n, d, 1)
        q == n \div (d * u)
        r == n - q * d * u
    IN IF 2 * r > d * u \/ (2 * r = d * u /\ q % 2 = 1)
       THEN (q + 1) * u ELSE q * u

\* n/d rounded to the nearest representable number (the operand is bound to
\* its value once, then rounded)
FRound(n, d) ==
    CHOOSE r \in {IF v < 0 THEN 0 - FRoundPos(0 - v, d) ELSE FRoundPos(v, d) :
                     v \in {n}} : TRUE

One(dt) == IF dt = "float" THEN Unit ELSE 1

\* a + b in the element type
Add(dt, a, b) == IF dt = "float" THEN FRound(a + b, 1) ELSE a + b

\* a * b in the element type
Mul(dt, a, b) == IF dt = "float" THEN FRound(a * b, Unit) ELSE a * b

\* Tensor.true_divide_ (line 81)
TrueDivide(a, c) == FRound(a * Unit, c)

\* Tensor.div_(rounding_mode='floor') (line 83); c > 0
FloorDivide(a, c) == a \div c

\* ------------------------------------------------------------------------
\* Tensors
\* ------------------------------------------------------------------------
RECURSIVE SeqIndices(_)
\* every index tuple of a buffer of the given shape, in row-major order
SeqIndices(shape) ==
    IF Len(shape) = 0 THEN << <<>> >>
    ELSE LET rest == SeqIndices(Tail(shape))
             n == Len(rest)
         IN [k \in 1..(shape[1] * n) |->
                <<((k - 1) \div n) + 1>> \o rest[((k - 1) % n) + 1]]

RECURSIVE Indices(_)
\* the set of index tuples of a buffer of the given shape
Indices(shape) ==
    IF Len(shape) = 0 THEN { <<>> }
    ELSE {<<a>> \o r : a \in 1..shape[1], r \in Indices(Tail(shape))}

Numel(shape) == Cardinality(Indices(shape))

Tensor(shape, dt, f(_)) ==
    [shape |-> shape, dtype |-> dt, at |-> [i \in Indices(shape) |-> f(i)]]

Error(exc, why) == [err |-> exc, why |-> why]

IsErr(r) == "err" \in DOMAIN r

\* torch.Tensor.unsqueeze(0)
Unsqueeze0(t) == Tensor(<<1>> \o t.shape, t.dtype, LAMBDA i : t.at[Tail(i)])

\* torch.Tensor.unsqueeze(-1)
UnsqueezeLast(t) ==
    Tensor(Append(t.shape, 1), t.dtype, LAMBDA i : t.at[SubSeq(i, 1, Len(i) - 1)])

\* torch.Tensor.expand(size): axes are aligned from the right, a source
\* axis must have extent 1 or the requested extent, and the requested rank
\* may not be smaller than the source's
Expand(t, size) ==
    LET off == Len(size) - Len(t.shape) IN
    IF off < 0 THEN Error("RuntimeError", "shape")
    ELSE IF \E k \in 1..Len(t.shape) :
                t.shape[k] # 1 /\ t.shape[k] # size[k + off]
    THEN Error("RuntimeError", "shape")
    ELSE Tensor(size, t.dtype, LAMBDA i :
             t.at[[k \in 1..Len(t.shape) |->
                      IF t.shape[k] = 1 THEN 1 ELSE i[k + off]]])

RECURSIVE UnsqueezeFront(_, _)
\* for _ in range(0, dim): src = src.unsqueeze(0)
UnsqueezeFront(t, n) ==
    IF n <= 0 THEN t ELSE UnsqueezeFront(Unsqueeze0(t), n - 1)

RECURSIVE UnsqueezeBack(_, _)
\* for _ in range(src.dim(), other.dim()): src = src.unsqueeze(-1)
UnsqueezeBack(t, rank) ==
    IF Len(t.shape) >= rank THEN t ELSE UnsqueezeBack(UnsqueezeLast(t), rank)

\* a broadcast that leaves a negative dim unresolved
broadcast_unresolved(s, o, d) ==
    LET s1 == IF Len(s.shape) = 1 THEN UnsqueezeFront(s, d) ELSE s
        s2 == UnsqueezeBack(s1, Len(o.shape))
    IN Expand(s2, o.shape)

\* broadcast(src, other, dim)
broadcast(s, o, d) ==
    LET d1 == IF d < 0 THEN Len(o.shape) + d ELSE d
        s1 == IF Len(s.shape) = 1 THEN UnsqueezeFront(s, d1) ELSE s
        s2 == UnsqueezeBack(s1, Len(o.shape))
    IN Expand(s2, o.shape)

\* ------------------------------------------------------------------------
\* The reductions
\* ------------------------------------------------------------------------
\* size[dim] on a Python list, and the axis a torch kernel resolves dim to:
\* the 1-based position of axis d of a buffer of the given rank, 0 when d is
\* out of range
PyAxis(rank, d) ==
    IF d >= 0 /\ d < rank THEN d + 1
    ELSE IF d < 0 /\ d >= 0 - rank THEN rank + d + 1
    ELSE 0

\* torch.zeros(size, dtype) / torch.ones(size, dtype)
zeros(size, dt) == Tensor(size, dt, LAMBDA i : 0)
ones(size, dt) == Tensor(size, dt, LAMBDA i : One(dt))

\* int(index.max()) of a non-empty buffer
TensorMax(t) ==
    CHOOSE m \in {t.at[i] : i \in DOMAIN t.at} :
        \A i \in DOMAIN t.at : t.at[i] <= m

\* the value an empty slot of a "min"/"max" reduction holds while the kernel
\* runs (the extreme value of the element type, beyond every model value)
Extreme == Pow2(20)

\* a combine step that stores instead of accumulating
Combine_store(kind, dt, a, b) == b

\* the combine step of a scatter kernel
Combine(kind, dt, a, b) ==
    CASE kind = "sum" -> Add(dt, a, b)
      [] kind = "mul" -> Mul(dt, a, b)
      [] kind = "min" -> IF b < a THEN b ELSE a
      [] kind = "max" -> IF b > a THEN b ELSE a

RECURSIVE ScatterLoop(_, _, _, _, _, _, _, _)
\* the element loop of a scatter kernel: the elements of s are visited in
\* row-major order and element i is combined into the slot whose coordinate
\* on axis ax is index[i]
ScatterLoop(acc, ax, idx, s, order, k, kind, dt) ==
    IF k > Len(order) THEN acc
    ELSE LET i == order[k]
             j == [i EXCEPT ![ax] = idx.at[i] + 1]
         IN CHOOSE r \in
               {ScatterLoop([a EXCEPT ![j] = Combine(kind, dt, a[j], s.at[i])],
                            ax, idx, s, order, k + 1, kind, dt) : a \in {acc}} :
               TRUE

\* a scatter_add_ that clamps an index entry into range instead of failing
scatter_add_clamped(o, d, idx, s) ==
    LET ax == PyAxis(Len(o.shape), d)
        top == o.shape[ax] - 1
        cl == [idx EXCEPT !.at = [i \in DOMAIN idx.at |->
                  IF idx.at[i] > top THEN top ELSE idx.at[i]]]
    IN IF Numel(idx.shape) = 0 \/ top < 0 THEN o
       ELSE [o EXCEPT !.at =
                ScatterLoop(o.at, ax, cl, s, SeqIndices(cl.shape), 1,
                            "sum", o.dtype)]

\* Tensor.scatter_add_(dim, index, src): nothing is done for an empty
\* index; otherwise index, src and self have one rank, index is no larger
\* than src on any axis nor than self on any axis but dim, and every index
\* entry addresses a slot of self on axis dim
scatter_add_(o, d, idx, s) ==
    LET rank == Len(o.shape)
        ax == PyAxis(rank, d)
    IN IF ax = 0 THEN Error("IndexError", "dim")
       ELSE IF Numel(idx.shape) = 0 THEN o
       ELSE IF Len(idx.shape) # rank \/ Len(s.shape) # rank
       THEN Error("RuntimeError", "shape")
       ELSE IF \E k \in 1..rank :
                  \/ idx.shape[k] > s.shape[k]
                  \/ (k # ax /\ idx.shape[k] > o.shape[k])
       THEN Error("RuntimeError", "shape")
       ELSE IF \E i \in Indices(idx.shape) :
                  idx.at[i] < 0 \/ idx.at[i] >= o.shape[ax]
       THEN Error("RuntimeError", "index")
       ELSE [o EXCEPT !.at =
                ScatterLoop(o.at, ax, idx, s, SeqIndices(idx.shape), 1,
                            "sum", o.dtype)]

\* the shape of the buffer a reduction allocates when out is None
\* (lines 39-45)
OutSize(s, bidx, d, ds) ==
    LET ax == PyAxis(Len(s.shape), d) IN
    [s.shape EXCEPT ![ax] =
        IF ~IsNone(ds) THEN Get(ds)
        ELSE IF Numel(bidx.shape) = 0 THEN 0
        ELSE TensorMax(bidx) + 1]

\* scatter_sum(src, index, dim, out, dim_size)
scatter_sum(s, idx, d, o, ds) ==
    LET bidx == broadcast(idx, s, d) IN
    IF IsErr(bidx) THEN bidx
    ELSE IF IsNone(o)
    THEN IF PyAxis(Len(s.shape), d) = 0 THEN Error("IndexError", "dim")
         ELSE scatter_add_(zeros(OutSize(s, bidx, d, ds), s.dtype), d, bidx, s)
    ELSE scatter_add_(Get(o), d, bidx, s)

\* scatter_add(src, index, dim, out, dim_size)
scatter_add(s, idx, d, o, ds) == scatter_sum(s, idx, d, o, ds)

\* count[count < 1] = 1
ClampCount(c) ==
    [c EXCEPT !.at = [i \in DOMAIN c.at |->
                         IF c.at[i] < One(c.dtype) THEN One(c.dtype)
                         ELSE c.at[i]]]

\* out.true_divide_(count) / out.div_(count, rounding_mode='floor')
DivideBy(o, c) ==
    [o EXCEPT !.at = [i \in DOMAIN o.at |->
                         IF o.dtype = "float" THEN TrueDivide(o.at[i], c.at[i])
                         ELSE FloorDivide(o.at[i], c.at[i])]]

\* scatter_mean(src, index, dim, out, dim_size)
scatter_mean(s, idx, d, o, ds) ==
    LET sum == scatter_sum(s, idx, d, o, ds) IN
    IF IsErr(sum) THEN sum
    ELSE
    LET size == sum.shape[PyAxis(Len(sum.shape), d)]
        d0 == IF d < 0 THEN d + Len(s.shape) ELSE d
        index_dim == IF Len(idx.shape) <= d0 THEN Len(idx.shape) - 1 ELSE d0
        cnt == scatter_sum(ones(idx.shape, s.dtype), idx, index_dim,
                           None, Some(size))
    IN IF IsErr(cnt) THEN cnt
       ELSE LET count == broadcast(ClampCount(cnt), sum, d)
            IN IF IsErr(count) THEN count ELSE DivideBy(sum, count)

\* The kernels of the torch_scatter extension behind scatter_mul,
\* scatter_min and scatter_max: index is broadcast, the output is allocated
\* as in scatter_sum and filled with the identity of the reduction, the
\* elements are combined in row-major order, and the slots of a "min"/"max"
\* output that no element reached are reset to zero.  The kernels do not
\* check the index entries against the output's extent.
ExtKernel(kind, s, idx, d, o, ds) ==
    LET bidx == broadcast(idx, s, d)
        ax == PyAxis(Len(s.shape), d)
    IN IF IsErr(bidx) THEN bidx
       ELSE IF ax = 0 THEN Error("IndexError", "dim")
       ELSE
       LET fill == CASE kind = "mul" -> One(s.dtype)
                     [] kind = "min" -> Extreme
                     [] kind = "max" -> 0 - Extreme
           init == IF IsNone(o)
                   THEN Tensor(OutSize(s, bidx, d, ds), s.dtype, LAMBDA i : fill)
                   ELSE Get(o)
       IN IF \E i \in Indices(bidx.shape) :
                 bidx.at[i] < 0 \/ bidx.at[i] >= init.shape[ax]
          THEN Error("Undefined", "index")
          ELSE
          LET raw == ScatterLoop(init.at, ax, bidx, s, SeqIndices(bidx.shape),
                                 1, kind, s.dtype)
          IN [init EXCEPT !.at = [j \in DOMAIN raw |->
                 IF /\ IsNone(o)
                    /\ kind # "mul"
                    /\ ~\E i \in Indices(bidx.shape) :
                          [i EXCEPT ![ax] = bidx.at[i] + 1] = j
                 THEN 0 ELSE raw[j]]]

\* scatter_mul / scatter_min / scatter_max: torch.ops.torch_scatter.<op>,
\* which exists only when the extension library has been loaded
scatter_mul(loaded, s, idx, d, o, ds) ==
    IF loaded THEN ExtKernel("mul", s, idx, d, o, ds)
    ELSE Error("AttributeError", "torch_scatter")

scatter_min(loaded, s, idx, d, o, ds) ==
    IF loaded THEN ExtKernel("min", s, idx, d, o, ds)
    ELSE Error("AttributeError", "torch_scatter")

scatter_max(loaded, s, idx, d, o, ds) ==
    IF loaded THEN ExtKernel("max", s, idx, d, o, ds)
    ELSE Error("AttributeError", "torch_scatter")

\* scatter(src, index, dim, out, dim_size, reduce)
\* a dispatcher that falls back to the sum for a name it does not know
scatter_lenient(ld, s, idx, d, o, ds, red) ==
    IF red = "mul" THEN scatter_mul(ld, s, idx, d, o, ds)
    ELSE IF red = "mean" THEN scatter_mean(s, idx, d, o, ds)
    ELSE IF red = "min" THEN scatter_min(ld, s, idx, d, o, ds)
    ELSE IF red = "max" THEN scatter_max(ld, s, idx, d, o, ds)
    ELSE scatter_sum(s, idx, d, o, ds)

scatter(ld, s, idx, d, o, ds, red) ==
    IF red = "sum" \/ red = "add" THEN scatter_sum(s, idx, d, o, ds)
    ELSE IF red = "mul" THEN scatter_mul(ld, s, idx, d, o, ds)
    ELSE IF red = "mean" THEN scatter_mean(s, idx, d, o, ds)
    ELSE IF red = "min" THEN scatter_min(ld, s, idx, d, o, ds)
    ELSE IF red = "max" THEN scatter_max(ld, s, idx, d, o, ds)
    ELSE Error("ValueError", "reduce")

\* ------------------------------------------------------------------------
\* Tensor operations of the layers
\* ------------------------------------------------------------------------
\* the element v of a buffer of type from, converted to type to
Convert(from, to, v) == IF from = "int" /\ to = "float" THEN v * Unit ELSE v

\* Tensor.index_select(axis, ids): ids is a sequence of 0-based positions
IndexSelect(t, ax, ids) ==
    IF \E k \in 1..Len(ids) : ids[k] < 0 \/ ids[k] >= t.shape[ax]
    THEN Error("IndexError", "index")
    ELSE Tensor([t.shape EXCEPT ![ax] = Len(ids)], t.dtype,
                LAMBDA i : t.at[[i EXCEPT ![ax] = ids[i[ax]] + 1]])

\* a concatenation that takes the leading extents of its first operand and
\* fills what the second operand lacks with zeros
Cat2_padded(a, b) ==
    LET n == Len(a.shape) IN
    IF Len(b.shape) # n \/ n = 0 THEN Error("RuntimeError", "shape")
    ELSE LET dt == IF a.dtype = "float" \/ b.dtype = "float"
                   THEN "float" ELSE "int"
         IN Tensor([a.shape EXCEPT ![n] = a.shape[n] + b.shape[n]], dt,
                LAMBDA i : IF i[n] <= a.shape[n]
                           THEN Convert(a.dtype, dt, a.at[i])
                           ELSE IF [i EXCEPT ![n] = i[n] - a.shape[n]] \in DOMAIN b.at
                           THEN Convert(b.dtype, dt,
                                        b.at[[i EXCEPT ![n] = i[n] - a.shape[n]]])
                           ELSE 0)

\* torch.cat([a, b], dim=-1): one rank, equal extents on every axis but the
\* last; an integer operand is promoted when the other is floating point
Cat2(a, b) ==
    LET n == Len(a.shape) IN
    IF Len(b.shape) # n \/ n = 0 THEN Error("RuntimeError", "shape")
    ELSE IF \E k \in 1..(n - 1) : a.shape[k] # b.shape[k]
    THEN Error("RuntimeError", "shape")
    ELSE LET dt == IF a.dtype = "float" \/ b.dtype = "float"
                   THEN "float" ELSE "int"
         IN Tensor([a.shape EXCEPT ![n] = a.shape[n] + b.shape[n]], dt,
                LAMBDA i : IF i[n] <= a.shape[n]
                           THEN Convert(a.dtype, dt, a.at[i])
                           ELSE Convert(b.dtype, dt,
                                        b.at[[i EXCEPT ![n] = i[n] - a.shape[n]]]))

\* torch.cat([a, b, c], dim=-1)
Cat3(a, b, c) ==
    LET ab == Cat2(a, b) IN IF IsErr(ab) THEN ab ELSE Cat2(ab, c)

\* Tensor.repeat(n, 1, ..., 1) with one more size than the buffer has axes:
\* n copies stacked along a new leading axis
RepeatFront(t, n) == Tensor(<<n>> \o t.shape, t.dtype, LAMBDA i : t.at[Tail(i)])

\* Tensor.squeeze(-1)
SqueezeLast(t) ==
    LET n == Len(t.shape) IN
    IF n = 0 \/ t.shape[n] # 1 THEN t
    ELSE Tensor(SubSeq(t.shape, 1, n - 1), t.dtype, LAMBDA i : t.at[Append(i, 1)])

\* the frozen parameters of the Linear module with identifier id: the
\* weight at (output o, input i) and the bias at output o
Weight(id, o, i) == Unit * ((id + o + i) % 2)
Bias(id, o) == Unit * ((id + o) % 2)

RECURSIVE Dot(_, _, _, _, _)
\* sum over the first n inputs of weight * input, for output o at row i
Dot(id, t, i, o, n) ==
    IF n = 0 THEN 0
    ELSE Add("float", Dot(id, t, i, o, n - 1),
             Mul("float", t.at[[i EXCEPT ![Len(i)] = n]], Weight(id, o, n)))

\* Linear(in_features, out_features) applied along the last axis
Linear(id, in_features, out_features, t) ==
    LET n == Len(t.shape) IN
    IF n = 0 \/ t.shape[n] # in_features THEN Error("RuntimeError", "shape")
    ELSE Tensor([t.shape EXCEPT ![n] = out_features], "float",
                LAMBDA i : Add("float", Dot(id, t, i, i[n], in_features),
                               Bias(id, i[n])))

\* ReLU / F.relu
ReLU(t) ==
    IF IsErr(t) THEN t
    ELSE [t EXCEPT !.at = [i \in DOMAIN t.at |-> IF t.at[i] < 0 THEN 0 ELSE t.at[i]]]

\* Sequential(Linear(n_in, n), ReLU(), Linear(n, n), ReLU())
Mlp(id, n_in, n, t) ==
    LET a == ReLU(Linear(id, n_in, n, t)) IN
    IF IsErr(a) THEN a ELSE ReLU(Linear(id + 1, n, n, a))

\* ------------------------------------------------------------------------
\* MPNNLayer and MPNNModel
\* ------------------------------------------------------------------------
InDim == 2       \* in_dim of the deployed model
EmbDim == 4      \* emb_dim of the deployed model
OutDim == 1      \* out_dim of the deployed model
NodeDim == 0 - 2 \* MessagePassing.node_dim

\* the aggregation names every version of the MessagePassing base class
\* accepts, "None" standing for aggr=None
BaseAggrs == {"add", "mean", "max", "None"}

\* MessagePassing.__init__(aggr): a name outside BaseAggrs is accepted by
\* some versions of the base class and rejected by others (lenient)
MessagePassingInit(aggr, lenient) ==
    IF aggr \in BaseAggrs \/ lenient THEN [aggr |-> aggr]
    ELSE Error("ValueError", "aggr")

\* MPNNLayer.__init__(emb_dim, edge_dim, aggr); id numbers the layer's
\* Linear modules
MPNNLayerInit(id, emb_dim, edge_dim, aggr, lenient) ==
    LET base == MessagePassingInit(aggr, lenient) IN
    IF IsErr(base) THEN base
    ELSE [aggr |-> base.aggr, emb_dim |-> emb_dim, edge_dim |-> edge_dim,
          id |-> id]

\* MPNNLayer.message(h_i, h_j, edge_attr)
message(layer, h_i, h_j, ea) ==
    LET r == Len(h_i.shape)
        ea1 == IF r = 3 THEN RepeatFront(ea, h_i.shape[1])
               ELSE IF r = 4
               THEN RepeatFront(RepeatFront(ea, h_i.shape[2]), h_i.shape[1])
               ELSE ea
        msg == Cat3(h_i, h_j, ea1)
    IN IF IsErr(msg) THEN msg
       ELSE Mlp(layer.id, 2 * layer.emb_dim + layer.edge_dim, layer.emb_dim, msg)

\* MPNNLayer.aggregate(inputs, index)
aggregate(ld, layer, inputs, idx) ==
    scatter(ld, inputs, idx, NodeDim, None, None, layer.aggr)

\* MPNNLayer.update(aggr_out, h)
update(layer, aggr_out, hh) ==
    LET u == Cat2(hh, aggr_out) IN
    IF IsErr(u) THEN u
    ELSE Mlp(layer.id + 2, 2 * layer.emb_dim, layer.emb_dim, u)

\* row r (1 or 2) of the 2 x E edge index, as a sequence of node numbers
EdgeRow(ei, r) == [e \in 1..ei.shape[2] |-> ei.at[<<r, e>>]]

\* MPNNLayer.forward(h, edge_index, edge_attr), that is
\* MessagePassing.propagate, up to the messages: h_i gathers the rows of h
\* at edge_index[1], h_j those at edge_index[0], and message is called on
\* them
propagate_message(layer, hh, ei, ea) ==
    LET ax == Len(hh.shape) - 1
        h_i == IndexSelect(hh, ax, EdgeRow(ei, 2))
        h_j == IndexSelect(hh, ax, EdgeRow(ei, 1))
    IN IF IsErr(h_i) THEN h_i
       ELSE IF IsErr(h_j) THEN h_j
       ELSE message(layer, h_i, h_j, ea)

\* MessagePassing.propagate, the aggregation: the messages are aggregated
\* by edge_index[1]
propagate_aggregate(ld, layer, msgs, ei) ==
    aggregate(ld, layer, msgs,
              Tensor(<<ei.shape[2]>>, "int", LAMBDA i : ei.at[<<2, i[1]>>]))

\* MPNNModel.__init__(edge_index, edge_attr, in_dim, num_layers, emb_dim,
\* out_dim)
MPNNModelInit(ei, ea, in_dim, num_layers, emb_dim, out_dim) ==
    [edge_index |-> ei, edge_attr |-> ea, edge_dim |-> ea.shape[2],
     in_dim |-> in_dim, emb_dim |-> emb_dim, out_dim |-> out_dim,
     convs |-> [l \in 1..num_layers |->
                   MPNNLayerInit(10 * l, emb_dim, ea.shape[2], "add", FALSE)]]

\* h = F.relu(self.lin_in1(x)); h = F.relu(self.lin_in2(h))
lin_in(m, xx) ==
    LET a == ReLU(Linear(1, m.in_dim, m.emb_dim, xx)) IN
    IF IsErr(a) THEN a ELSE ReLU(Linear(2, m.emb_dim, m.emb_dim, a))

\* h = F.relu(self.lin_pred1(h)); out = self.lin_pred2(h);
\* return out.squeeze(-1)
lin_pred(m, hh) ==
    LET a == ReLU(Linear(3, m.emb_dim, m.emb_dim, hh)) IN
    IF IsErr(a) THEN a
    ELSE LET o == Linear(4, m.emb_dim, m.out_dim, a) IN
         IF IsErr(o) THEN o ELSE SqueezeLast(o)

\* a loop that steps over every second layer
NextConv_skip(k) == k + 2

\* the layer the loop "for conv in self.convs" runs after layer k
NextConv(k) == k + 1

\* a loop that calls every layer on the projected input again
ConvInput_first(h0, hh) == h0

\* the buffer a layer of the loop is called on, given the projected input
\* h0 and the hidden state h: h
ConvInput(h0, hh) == hh

\* ------------------------------------------------------------------------
\* State
\* ------------------------------------------------------------------------
VARIABLES
    pc,            \* where the program is
    src,           \* the value buffer of the call
    other,         \* broadcast: the buffer whose shape is to be matched
    index,         \* the group index buffer of the call
    dim,           \* the axis argument
    out,           \* the optional out buffer
    dim_size,      \* the optional dim_size argument
    reduce,        \* the reduction kind of the last call
    result,        \* what the call returned, or the error it raised
    loaded,        \* whether the torch_scatter extension library is loaded
    perm,          \* the reordering of the rows tried after the call
    presult,       \* what the call on the reordered rows returned
    x,             \* the node feature buffer of the request
    edge_index,    \* the 2 x E edge index handed to the constructor
    edge_attr,     \* the edge feature buffer handed to the constructor
    model,         \* the MPNNModel, once constructed
    layer,         \* a MPNNLayer constructed on its own
    h,             \* the hidden state of the forward pass
    conv_no,       \* the layer the forward pass runs next
    msg,           \* the messages of the running layer
    aggr_out,      \* the aggregate of the running layer
    trace          \* the steps the forward pass has run, with their buffers

callvars == <<src, other, index, dim, out, dim_size, reduce, loaded, perm, presult>>

netvars == <<x, edge_index, edge_attr, model, layer, h, conv_no, msg, aggr_out,
             trace>>

vars == <<pc, result, callvars, netvars>>

\* ------------------------------------------------------------------------
\* broadcast on its own
\* ------------------------------------------------------------------------
Shapes(maxRank) ==
    UNION {[1..r -> 0..MaxExt] : r \in 1..maxRank}

\* a buffer whose element at i is a code of i, so that views are told apart
Iota(shape) ==
    LET s == SeqIndices(shape) IN
    Tensor(shape, "int", LAMBDA i : CHOOSE k \in 1..Len(s) : s[k] = i)

InitBroadcast ==
    /\ pc = "broadcast"
    /\ \E sh \in Shapes(2) : src = Iota(sh)
    /\ \E sh \in Shapes(3) : other = Iota(sh)
    /\ dim \in -3..3
    /\ index = None /\ out = None /\ dim_size = None /\ reduce = None
    /\ result = None
    /\ loaded = FALSE
    /\ perm = None /\ presult = None
    /\ x = None /\ edge_index = None /\ edge_attr = None /\ model = None
    /\ layer = None /\ h = None /\ conv_no = 0 /\ trace = <<>>
    /\ msg = None /\ aggr_out = None

CallBroadcast ==
    /\ pc = "broadcast"
    /\ result' = broadcast(src, other, dim)
    /\ pc' = "returned"
    /\ UNCHANGED <<src, other, index, dim, out, dim_size, reduce, loaded,
                   perm, presult, netvars>>

NextBroadcast == CallBroadcast

SpecBroadcast == InitBroadcast /\ [][NextBroadcast]_vars

\* ------------------------------------------------------------------------
\* The reductions, called on every small input
\* ------------------------------------------------------------------------
Cols == {1, 2}              \* widths of the value buffer
GroupIds == {0, 1, 2}       \* the entries an index buffer may hold
DTypes == {"int", "float"}

\* the elements a value buffer may hold
Vals(dt) == IF dt = "float" THEN {Unit, 8 * Unit} ELSE {0 - 3, 2}

\* the 2-D value buffers with r rows and c columns
Buffers(r, c, dt) ==
    {[shape |-> <<r, c>>, dtype |-> dt, at |-> f] :
        f \in [Indices(<<r, c>>) -> Vals(dt)]}

\* the 1-D index buffers of length n with entries in ids
IndexBuffers(n, ids) ==
    {[shape |-> <<n>>, dtype |-> "int", at |-> f] :
        f \in [Indices(<<n>>) -> ids]}

Kinds == {"sum", "add", "mean", "median"}

InitScatter ==
    /\ pc = "scatter"
    /\ \E r \in 0..MaxRows, c \in Cols, dt \in DTypes :
          /\ src \in Buffers(r, c, dt)
          /\ \/ dim \in {0, 0 - 2} /\ index \in IndexBuffers(r, GroupIds)
             \/ dim \in {1, 0 - 1} /\ index \in IndexBuffers(c, GroupIds)
    /\ dim_size \in {None, Some(2), Some(3)}
    /\ out = None
    /\ other = None /\ reduce = None /\ result = None
    /\ loaded = FALSE
    /\ perm = None /\ presult = None
    /\ x = None /\ edge_index = None /\ edge_attr = None /\ model = None
    /\ layer = None /\ h = None /\ conv_no = 0 /\ trace = <<>>
    /\ msg = None /\ aggr_out = None

CallScatter ==
    /\ pc = "scatter"
    /\ \E red \in Kinds :
          /\ reduce' = red
          /\ result' = scatter(loaded, src, index, dim, out, dim_size, red)
    /\ pc' = "returned"
    /\ UNCHANGED <<src, other, index, dim, out, dim_size, loaded, perm, presult,
                   netvars>>

NextScatter == CallScatter

SpecScatter == InitScatter /\ [][NextScatter]_vars

\* ------------------------------------------------------------------------
\* A reduction called twice: on the rows as given, then on the same rows
\* reordered (values and index alike)
\* ------------------------------------------------------------------------
AllKinds == {"sum", "add", "mul", "mean", "min", "max"}

\* the one-to-one maps of 1..n onto itself
Perms(n) == {p \in [1..n -> 1..n] : \A a, b \in 1..n : p[a] = p[b] => a = b}

\* the buffer whose row k is row p[k] of t
PermuteRows(t, p) ==
    [t EXCEPT !.at = [i \in DOMAIN t.at |-> t.at[[i EXCEPT ![1] = p[i[1]]]]]]

InitPerm ==
    /\ pc = "scatter"
    /\ \E r \in 0..(MaxRows + 1), dt \in DTypes :
          /\ src \in Buffers(r, 1, dt)
          /\ index \in IndexBuffers(r, {0, 1})
    /\ dim = 0
    /\ dim_size = None
    /\ out = None
    /\ other = None /\ reduce = None /\ result = None
    /\ loaded \in BOOLEAN
    /\ perm = None /\ presult = None
    /\ x = None /\ edge_index = None /\ edge_attr = None /\ model = None
    /\ layer = None /\ h = None /\ conv_no = 0 /\ trace = <<>>
    /\ msg = None /\ aggr_out = None

CallReduce ==
    /\ pc = "scatter"
    /\ \E red \in AllKinds :
          /\ reduce' = red
          /\ result' = scatter(loaded, src, index, dim, out, dim_size, red)
    /\ pc' = "returned"
    /\ UNCHANGED <<src, other, index, dim, out, dim_size, loaded, perm, presult,
                   netvars>>

CallPermuted ==
    /\ pc = "returned"
    /\ \E p \in Perms(index.shape[1]) :
          /\ perm' = p
          /\ presult' = scatter(loaded, PermuteRows(src, p), PermuteRows(index, p),
                                dim, out, dim_size, reduce)
    /\ pc' = "permuted"
    /\ UNCHANGED <<src, other, index, dim, out, dim_size, reduce, result, loaded,
                   netvars>>

NextPerm == CallReduce \/ CallPermuted

SpecPerm == InitPerm /\ [][NextPerm]_vars

\* ------------------------------------------------------------------------
\* The network: a model is constructed and runs a forward pass step by
\* step, or a layer is constructed on its own and called once
\* ------------------------------------------------------------------------
EdgeCounts == {0, 1, 2}      \* numbers of edges of a graph
EdgeDim == 2                 \* width of the deployed edge feature buffer

\* the names a caller may hand to MPNNLayer as aggr
AggrNames == {"add", "mean", "max", "None", "median"}

\* a node feature buffer of the given shape
Features(shape, v) ==
    Tensor(shape, "float",
           LAMBDA i : Unit * ((i[Len(i)] + i[Len(i) - 1] + v) % 2))

\* the nodes the edges of a request run between
EdgeEnds == {0, 1}

\* the 2 x e edge indices between those nodes
EdgeIndices(e) ==
    {[shape |-> <<2, e>>, dtype |-> "int", at |-> f] :
        f \in [Indices(<<2, e>>) -> EdgeEnds]}

\* the edge feature buffer with e rows: row r is [0, 1], as deployed
EdgeAttr(e) == Tensor(<<e, EdgeDim>>, "int", LAMBDA i : i[2] - 1)

InitNet ==
    /\ pc = "start"
    /\ \E n \in 1..MaxNodes : x = Features(<<n, InDim>>, 1)
    /\ \E e \in EdgeCounts : edge_index \in EdgeIndices(e)
    /\ \E e \in EdgeCounts : edge_attr = EdgeAttr(e)
    /\ model = None /\ layer = None /\ h = None /\ conv_no = 0 /\ trace = <<>>
    /\ msg = None /\ aggr_out = None
    /\ result = None
    /\ loaded \in BOOLEAN
    /\ src = None /\ other = None /\ index = None /\ dim = 0 /\ out = None
    /\ dim_size = None /\ reduce = None /\ perm = None /\ presult = None

\* model = MPNNModel(edge_index, edge_attr, in_dim, num_layers, emb_dim,
\* out_dim)
ConstructModel ==
    /\ pc = "start"
    /\ \E n \in 0..MaxLayers :
          model' = Some(MPNNModelInit(edge_index, edge_attr, InDim, n,
                                      EmbDim, OutDim))
    /\ pc' = "ready"
    /\ UNCHANGED <<result, callvars, x, edge_index, edge_attr, layer, h,
                   conv_no, trace, msg, aggr_out>>

\* forward, lines 319-320: the input projection
ForwardIn ==
    /\ pc = "ready"
    /\ LET h1 == lin_in(Get(model), x) IN
       IF IsErr(h1)
       THEN /\ pc' = "failed" /\ result' = h1
            /\ UNCHANGED <<h, conv_no, trace>>
       ELSE /\ pc' = "convs" /\ h' = Some(h1) /\ conv_no' = 1
            /\ trace' = <<[step |-> "lin_in", input |-> x, output |-> h1]>>
            /\ UNCHANGED result
    /\ UNCHANGED <<callvars, x, edge_index, edge_attr, model, layer, msg, aggr_out>>

\* forward, lines 322-323: the loop over self.convs calls the next layer
ForwardConv ==
    /\ pc = "convs"
    /\ conv_no <= Len(Get(model).convs)
    /\ h' = Some(ConvInput(trace[1].output, Get(h)))
    /\ pc' = "message"
    /\ UNCHANGED <<result, callvars, x, edge_index, edge_attr, model, layer,
                   conv_no, trace, msg, aggr_out>>

\* the layer that is running, and the edge structure it was called with
TheLayer == IF IsNone(model) THEN Get(layer) ELSE Get(model).convs[conv_no]
TheEdgeIndex == IF IsNone(model) THEN edge_index ELSE Get(model).edge_index
TheEdgeAttr == IF IsNone(model) THEN edge_attr ELSE Get(model).edge_attr

\* propagate: the rows of h are gathered and message is called
Message ==
    /\ pc = "message"
    /\ LET m == propagate_message(TheLayer, Get(h), TheEdgeIndex, TheEdgeAttr) IN
       IF IsErr(m)
       THEN pc' = "failed" /\ result' = m /\ msg' = msg
       ELSE pc' = "aggregate" /\ msg' = Some(m) /\ result' = result
    /\ UNCHANGED <<callvars, x, edge_index, edge_attr, model, layer, h, conv_no,
                   trace, aggr_out>>

\* propagate: aggregate is called on the messages
Aggregate ==
    /\ pc = "aggregate"
    /\ LET a == propagate_aggregate(loaded, TheLayer, Get(msg), TheEdgeIndex) IN
       IF IsErr(a)
       THEN pc' = "failed" /\ result' = a /\ aggr_out' = aggr_out
       ELSE pc' = "update" /\ aggr_out' = Some(a) /\ result' = result
    /\ UNCHANGED <<callvars, x, edge_index, edge_attr, model, layer, h, conv_no,
                   trace, msg>>

\* propagate: update is called on the aggregate, and the layer returns; a
\* layer of a model hands its output to the loop as the new hidden state
Update ==
    /\ pc = "update"
    /\ LET o == update(TheLayer, Get(aggr_out), Get(h)) IN
       IF IsErr(o)
       THEN /\ pc' = "failed" /\ result' = o
            /\ UNCHANGED <<h, conv_no, trace>>
       ELSE IF IsNone(model)
       THEN /\ pc' = "layer_done" /\ result' = o
            /\ UNCHANGED <<h, conv_no, trace>>
       ELSE /\ pc' = "convs" /\ h' = Some(o) /\ conv_no' = NextConv(conv_no)
            /\ trace' = Append(trace, [step |-> "conv", conv |-> conv_no,
                                       input |-> Get(h), output |-> o,
                                       edge_index |-> TheEdgeIndex,
                                       edge_attr |-> TheEdgeAttr])
            /\ UNCHANGED result
    /\ UNCHANGED <<callvars, x, edge_index, edge_attr, model, layer, msg, aggr_out>>

\* forward, lines 325-327: the output projection and the return
ForwardOut ==
    /\ pc = "convs"
    /\ conv_no > Len(Get(model).convs)
    /\ LET o == lin_pred(Get(model), Get(h)) IN
       /\ result' = o
       /\ pc' = IF IsErr(o) THEN "failed" ELSE "done"
       /\ trace' = IF IsErr(o) THEN trace
                   ELSE Append(trace, [step |-> "lin_pred", input |-> Get(h),
                                       output |-> o])
    /\ UNCHANGED <<callvars, x, edge_index, edge_attr, model, layer, h, conv_no,
                   msg, aggr_out>>

\* layer = MPNNLayer(emb_dim, edge_dim, aggr)
ConstructLayer ==
    /\ pc = "start"
    /\ \E a \in AggrNames, lenient \in BOOLEAN :
          LET l == MPNNLayerInit(10, EmbDim, edge_attr.shape[2], a, lenient) IN
          IF IsErr(l)
          THEN pc' = "rejected" /\ result' = l /\ layer' = layer
          ELSE pc' = "layer_ready" /\ layer' = Some(l) /\ result' = result
    /\ UNCHANGED <<callvars, x, edge_index, edge_attr, model, h, conv_no, trace,
                   msg, aggr_out>>

\* the hidden state a layer on its own is called on: the request, widened
\* to emb_dim features by the input projection
LayerInput ==
    ReLU(Linear(2, EmbDim, EmbDim, ReLU(Linear(1, InDim, EmbDim, x))))

\* out = layer(h, edge_index, edge_attr)
CallLayer ==
    /\ pc = "layer_ready"
    /\ h' = Some(LayerInput)
    /\ pc' = "message"
    /\ UNCHANGED <<result, callvars, x, edge_index, edge_attr, model, layer,
                   conv_no, trace, msg, aggr_out>>

NextNet ==
    \/ ConstructModel
    \/ ForwardIn
    \/ ForwardConv
    \/ Message
    \/ Aggregate
    \/ Update
    \/ ForwardOut
    \/ ConstructLayer
    \/ CallLayer

SpecNet == InitNet /\ [][NextNet]_vars

\* ------------------------------------------------------------------------
\* Properties of the reductions (SpecScatter)
\* ------------------------------------------------------------------------
Returned == pc = "returned"

\* the axis of the 2-D value buffer the call reduces along
ReduceAxis == IF dim = 0 \/ dim = 0 - 2 THEN 1 ELSE 2

\* the rows (positions along the reduced axis) whose index entry is g
RowsOf(g) == {k \in 1..index.shape[1] : index.at[<<k>>] = g}

\* every index entry addresses a group of the output
EntriesInRange ==
    IsNone(dim_size) \/ \A k \in 1..index.shape[1] : index.at[<<k>>] < Get(dim_size)

RECURSIVE SumUpTo(_, _, _)
\* the sum, taken in row order in the element type, of the elements of src
\* that lie on the line through j along the reduced axis, at the first n
\* positions, and whose index entry is g
SumUpTo(n, g, j) ==
    IF n = 0 THEN 0
    ELSE IF index.at[<<n>>] = g
    THEN Add(src.dtype, SumUpTo(n - 1, g, j), src.at[[j EXCEPT ![ReduceAxis] = n]])
    ELSE SumUpTo(n - 1, g, j)

\* the sum of the rows mapped to the group of output slot j, at j's column
GroupSum(j) == SumUpTo(src.shape[ReduceAxis], j[ReduceAxis] - 1, j)

\* C1: a "sum"/"add" reduction without an out buffer, all index entries in
\* [0, dim_size), returns a buffer with dim_size groups that holds at each
\* group the elementwise sum of exactly the rows mapped to it, and zero at
\* every group no row maps to.
C1_SumCorrect ==
    (Returned /\ reduce \in {"sum", "add"} /\ IsNone(out) /\ EntriesInRange)
    => /\ ~IsErr(result)
       /\ ~IsNone(dim_size) => result.shape[ReduceAxis] = Get(dim_size)
       /\ \A j \in DOMAIN result.at :
             /\ result.at[j] = GroupSum(j)
             /\ RowsOf(j[ReduceAxis] - 1) = {} => result.at[j] = 0

\* a group summed from two rows next to a group no row maps to
C1_Witness ==
    /\ Returned /\ reduce = "sum" /\ IsNone(out) /\ EntriesInRange
    /\ ~IsErr(result)
    /\ src.shape = <<2, 2>> /\ dim = 0 - 2
    /\ Cardinality(RowsOf(1)) = 2
    /\ result.shape = <<3, 2>>
    /\ result.at[<<2, 1>>] # result.at[<<2, 2>>]
    /\ result.at[<<3, 1>>] = 0

\* the mean of the rows mapped to the group of slot j: their sum divided by
\* their number, zero when there are none
GroupMean(j) ==
    LET n == Cardinality(RowsOf(j[ReduceAxis] - 1)) IN
    IF n = 0 THEN 0
    ELSE IF src.dtype = "float" THEN FRound(GroupSum(j), n)
    ELSE GroupSum(j) \div n

\* C2: the "mean" reduction returns at each group the sum of the rows mapped
\* to it divided by their number (true division for floating point, floor
\* division for integers), and zero where no row maps.
C2_MeanCorrect ==
    (Returned /\ reduce = "mean" /\ IsNone(out) /\ EntriesInRange)
    => /\ ~IsErr(result)
       /\ \A j \in DOMAIN result.at : result.at[j] = GroupMean(j)

\* C3: without an out buffer the output has the rank of values, its extent
\* along dim is dim_size when given, else max(index)+1 for a non-empty
\* index, else 0, and its other extents are those of values.
C3_OutputShape ==
    (Returned /\ reduce \in {"sum", "add", "mean"} /\ IsNone(out)
       /\ ~IsErr(result))
    => /\ Len(result.shape) = Len(src.shape)
       /\ result.shape[ReduceAxis] =
             IF ~IsNone(dim_size) THEN Get(dim_size)
             ELSE IF index.shape[1] > 0
             THEN (CHOOSE m \in GroupIds :
                      /\ \E k \in 1..index.shape[1] : index.at[<<k>>] = m
                      /\ \A k \in 1..index.shape[1] : index.at[<<k>>] <= m) + 1
             ELSE 0
       /\ \A a \in 1..Len(src.shape) :
             a # ReduceAxis => result.shape[a] = src.shape[a]

ResolvedDim == IF dim < 0 THEN Len(other.shape) + dim ELSE dim

DimInRange == ResolvedDim >= 0 /\ ResolvedDim < Len(other.shape)

\* a sequence of n ones
OnesSeq(n) == [k \in 1..n |-> 1]

\* src's extent on the axis that comes to lie at position dim
PlacedExtent ==
    IF Len(src.shape) = 1 THEN src.shape[1]
    ELSE IF ResolvedDim < Len(src.shape) THEN src.shape[ResolvedDim + 1]
    ELSE 1

\* the shape of src once its singleton axes are inserted: a 1-D src lies at
\* position dim, any other src keeps its axes in front
LandedShape ==
    IF Len(src.shape) = 1
    THEN OnesSeq(ResolvedDim) \o src.shape
            \o OnesSeq(Len(other.shape) - ResolvedDim - 1)
    ELSE IF Len(src.shape) < Len(other.shape)
    THEN src.shape \o OnesSeq(Len(other.shape) - Len(src.shape))
    ELSE src.shape

Fits(shape) ==
    /\ Len(shape) = Len(other.shape)
    /\ \A k \in 1..Len(shape) : shape[k] = 1 \/ shape[k] = other.shape[k]

\* C9 as stated: broadcast returns a view of other's shape when src's extent
\* on the axis placed at dim is 1 or other's extent at dim, and fails with a
\* shape error in every other case (checked for a non-empty src that is 1-D
\* or of lower rank than other).
C9_PlacedAxisDecides ==
    (Returned /\ DimInRange
       /\ (Len(src.shape) = 1 \/ Len(src.shape) < Len(other.shape))
       /\ \A k \in 1..Len(src.shape) : src.shape[k] >= 1)
    => IF PlacedExtent = 1 \/ PlacedExtent = other.shape[ResolvedDim + 1]
       THEN ~IsErr(result) /\ result.shape = other.shape
       ELSE IsErr(result) /\ result.why = "shape"

\* C9, amended: broadcast returns a view of other's shape when every axis of
\* src, singleton axes inserted, has extent 1 or other's extent at its
\* position (for a 1-D src: when its extent is 1 or other's extent at dim),
\* and fails with a shape error in every other case; a returned buffer
\* always has other's shape, and a 1-D src is read along axis dim.
C9_EveryAxisDecides ==
    /\ (Returned /\ DimInRange)
       => /\ IF Fits(LandedShape)
             THEN ~IsErr(result) /\ result.shape = other.shape
             ELSE IsErr(result) /\ result.why = "shape"
          /\ Len(src.shape) = 1
             => (Fits(LandedShape) <=>
                   (src.shape[1] = 1 \/ src.shape[1] = other.shape[ResolvedDim + 1]))
          /\ (Len(src.shape) = 1 /\ ~IsErr(result))
             => \A i \in DOMAIN result.at :
                   result.at[i] =
                      src.at[<<IF src.shape[1] = 1 THEN 1 ELSE i[ResolvedDim + 1]>>]
    /\ (Returned /\ ~IsErr(result)) => result.shape = other.shape

\* a 1-D buffer of two elements laid along the last axis of a 2 x 2 buffer
C9_Witness ==
    /\ Returned /\ ~IsErr(result)
    /\ src.shape = <<2>> /\ other.shape = <<2, 2>> /\ dim = 0 - 1
    /\ result.shape = <<2, 2>>
    /\ result.at[<<2, 2>>] = src.at[<<2>>]
    /\ result.at[<<2, 1>>] = src.at[<<1>>]

\* ------------------------------------------------------------------------
\* Properties of reordering (SpecPerm)
\* ------------------------------------------------------------------------
\* C5 as stated: applying one permutation to the rows of values and of
\* index leaves the output of every reduction kind unchanged.
C5_PermutationInvariant ==
    pc = "permuted" => presult = result

\* C5, amended: the output is unchanged for every reduction kind on integer
\* buffers, and for "min" and "max" on floating point buffers.
C5_ExactPermutationInvariant ==
    (pc = "permuted" /\ (src.dtype = "int" \/ reduce \in {"min", "max"}))
    => presult = result

\* an integer mean over three rows, two unequal ones in one group, reordered
C5_Witness ==
    /\ pc = "permuted" /\ src.dtype = "int" /\ reduce = "mean"
    /\ src.shape[1] = 3
    /\ perm = <<3, 1, 2>>
    /\ index.at[<<1>>] = 1 /\ index.at[<<2>>] = 0 /\ index.at[<<3>>] = 1
    /\ src.at[<<1, 1>>] # src.at[<<3, 1>>]
    /\ ~IsErr(presult) /\ presult = result

\* ------------------------------------------------------------------------
\* The Graph Layer and the Model
\* ------------------------------------------------------------------------
\* the reduction names scatter dispatches on
ScatterKinds == {"sum", "add", "mul", "mean", "min", "max"}

\* a layer on its own (no model) was constructed and called, and the call
\* has returned or failed
LayerCallEnded ==
    /\ IsNone(model) /\ ~IsNone(layer)
    /\ pc \in {"layer_done", "failed"}

\* every entry of the edge index is a row of the request
EdgesInRange ==
    \A i \in DOMAIN edge_index.at :
        edge_index.at[i] >= 0 /\ edge_index.at[i] < x.shape[1]

\* the edge attributes have one row per edge
EdgesMatch == edge_attr.shape[1] = edge_index.shape[2]

\* C6: for node features with N rows and an edge index whose entries all lie
\* in [0, N), the forward pass of a Graph Layer (one attribute row per edge,
\* reduction add or mean) returns a buffer of exactly N rows and width
\* emb_dim, also when the highest-numbered nodes receive no edge.
C6_LayerKeepsRows ==
    (LayerCallEnded /\ EdgesInRange /\ EdgesMatch
        /\ Get(layer).aggr \in {"add", "mean"})
    => (pc = "layer_done" /\ result.shape = <<x.shape[1], EmbDim>>)

\* C7: an unrecognized reduction kind is rejected when the Graph Layer or
\* the Model is constructed: no constructed layer holds a kind the reduction
\* does not know, and no forward pass fails on the kind.
C7_RejectedAtConstruction ==
    /\ ~IsNone(layer) => Get(layer).aggr \in ScatterKinds
    /\ ~(pc = "failed" /\ result = Error("ValueError", "reduce"))

\* C7, amended: an unrecognized reduction kind is rejected at the latest by
\* the first aggregate step: a layer holding such a kind never gets past
\* aggregate and never returns, and when its message step succeeded the
\* forward pass fails with the reduction's ValueError; the layers of a Model
\* always hold the kind add, so a Model's forward pass never fails on the
\* kind.
C7_RejectedByFirstAggregate ==
    /\ (~IsNone(layer) /\ Get(layer).aggr \notin ScatterKinds)
       => /\ pc \notin {"update", "layer_done"}
          /\ IsNone(aggr_out)
          /\ (pc = "failed" /\ ~IsNone(msg))
             => result = Error("ValueError", "reduce")
    /\ ~IsNone(model)
       => /\ \A l \in DOMAIN Get(model).convs : Get(model).convs[l].aggr = "add"
          /\ pc = "failed" => result # Error("ValueError", "reduce")

\* a layer constructed with an unrecognized kind fails in aggregate
C7_Witness ==
    /\ ~IsNone(layer) /\ Get(layer).aggr \notin ScatterKinds
    /\ pc = "failed" /\ ~IsNone(msg)
    /\ result = Error("ValueError", "reduce")

\* C8: model construction fails whenever the number of edge attribute rows
\* differs from the number of edge index columns, so no constructed model
\* has a mismatched edge structure.
C8_MismatchRejectedAtConstruction ==
    ~IsNone(model)
    => Get(model).edge_attr.shape[1] = Get(model).edge_index.shape[2]

\* C8, amended: construction checks nothing; a model whose edge attributes
\* and edge index differ in length fails in the first Graph Layer's message
\* step of the forward pass (gathering the rows or concatenating them with
\* the attributes), before any aggregate, and returns a result only when it
\* has no Graph Layer at all.
C8_MismatchFailsInFirstMessage ==
    (~IsNone(model)
        /\ Get(model).edge_attr.shape[1] # Get(model).edge_index.shape[2])
    => /\ pc \notin {"aggregate", "update"}
       /\ IsNone(msg) /\ IsNone(aggr_out)
       /\ conv_no <= 1
       /\ pc = "done" => Len(Get(model).convs) = 0
       /\ pc = "failed"
          => /\ conv_no = 1
             /\ result \in {Error("RuntimeError", "shape"),
                            Error("IndexError", "index")}

\* a mismatched model was constructed and its forward pass failed on the
\* concatenation of the first layer's message step
C8_Witness ==
    /\ ~IsNone(model)
    /\ Get(model).edge_attr.shape[1] # Get(model).edge_index.shape[2]
    /\ pc = "failed" /\ conv_no = 1
    /\ result = Error("RuntimeError", "shape")

\* C10: in a forward pass of the Model the steps run in a fixed order: the
\* input projection on the request, then the Graph Layers 1..L in list order,
\* each on the complete output of the step before it and on the model's
\* unmodified edge index and edge attributes, then the output projection on
\* the output of layer L; a result is returned only after all of them.
C10_ForwardOrder ==
    ~IsNone(model)
    => LET L == Len(Get(model).convs) IN
       /\ Len(trace) <= L + 2
       /\ \A i \in 1..Len(trace) :
             /\ i = 1 => trace[i].step = "lin_in" /\ trace[i].input = x
             /\ i > 1 => trace[i].input = trace[i - 1].output
             /\ (i > 1 /\ i <= L + 1)
                => /\ trace[i].step = "conv"
                   /\ trace[i].conv = i - 1
                   /\ trace[i].edge_index = edge_index
                   /\ trace[i].edge_attr = edge_attr
             /\ i = L + 2 => trace[i].step = "lin_pred"
       /\ pc = "done"
          => /\ Len(trace) = L + 2
             /\ result = trace[L + 2].output
       /\ pc = "failed" => IsErr(result)
       /\ pc \notin {"done", "failed"} => DOMAIN result = {}

\* a forward pass through MaxLayers layers has returned, and the layers
\* changed the hidden state
C10_Witness ==
    /\ ~IsNone(model) /\ pc = "done"
    /\ Len(Get(model).convs) = MaxLayers
    /\ Len(trace) = MaxLayers + 2
    /\ trace[2].output # trace[1].output

====
